---- MODULE Spec2Model ----
(***************************************************************************)
(* Model of mycompress.py: compressfiles walks a directory tree, decides   *)
(* per file whether to zip it, writes <path>.zip, removes the original and *)
(* accumulates the byte counters and the two result lists; main mails the  *)
(* result; end_program exits the process on SIGTERM / SIGTSTP.             *)
(*                                                                         *)
(* A file name is the sequence of its characters, a path is the pair       *)
(* <<dirpath, filename>>, and the file system fs maps every existing path  *)
(* to the content of the file.  A content is a record                      *)
(*    size  : st_size of the file                                          *)
(*    zip   : what zipfile.is_zipfile answers for the file                 *)
(*    clen  : len(zlib.compress(sample)) for the sample compression_ratio  *)
(*            reads from the middle of the file                            *)
(*    csize : compress_size of the file once deflated into an archive      *)
(* Variables fs0, trace and created are history variables: the file system *)
(* when the run began, one record per file the walk dispatched, and the    *)
(* archive paths the run has opened for writing.                           *)
(***************************************************************************)
EXTENDS Integers, Sequences, FiniteSets, TLC

\* ---------------------------------------------------------------- bounds
MaxFiles == 2        \* files in the tree when the first run starts
MaxRuns == 2         \* runs of main over the same tree

\* ------------------------------------------------------------- constants
ReadCap == 100000        \* fileobj.read(100000)
PyBytesOverhead == 33    \* sys.getsizeof(b'') of the interpreter
BoundNum == 95           \* 0.95 as BoundNum / BoundDen
BoundDen == 100
ZipLocalHeader == 30     \* bytes of a zip local file header, name excluded
ZipDirectory == 68       \* central directory entry (46) + end record (22)
ZlibFraming == 11        \* zlib.compress of incompressible bytes adds this

None == <<>>             \* the Python None of an absent --threshold
ZipSuffix == <<".", "z", "i", "p">>
NameA == <<"a">>
NameHidden == <<".", "h">>

Dirs == <<"root", "root/sub">>   \* the order os.walk yields them, top down

DirLen(d) == IF d = "root" THEN 5 ELSE 9

InitPaths ==
    { <<"root", NameA>>, <<"root", NameA \o ZipSuffix>>,
      <<"root", NameHidden>>, <<"root/sub", NameA>> }

\* contents the tree may hold before the first run
Text94 == [size |-> 134, zip |-> FALSE, clen |-> 61, csize |-> 120]
Text95 == [size |-> 134, zip |-> FALSE, clen |-> 62, csize |-> 121]
Small94 == [size |-> 133, zip |-> FALSE, clen |-> 61, csize |-> 119]
Stored == [size |-> 134, zip |-> TRUE, clen |-> 61, csize |-> 120]
Contents == {Text94, Text95, Small94, Stored}

Thresholds == {None, <<134>>}

\* the file ZipFile(path, 'w') leaves right after opening: truncated, empty
EmptyFile == [size |-> 0, zip |-> FALSE, clen |-> 8, csize |-> 2]

VARIABLES root_exists, threshold, fs, fs0, run, pc,
          thresh, uncompressed_size, compressed_size,
          compressed_files, not_compressed_files,
          walk, dirpath, filelist, filename, filesize,
          results, notified, trace, created

vars == <<root_exists, threshold, fs, fs0, run, pc,
          thresh, uncompressed_size, compressed_size,
          compressed_files, not_compressed_files,
          walk, dirpath, filelist, filename, filesize,
          results, notified, trace, created>>

\* ------------------------------------------------------------ helpers
Min(a, b) == IF a < b THEN a ELSE b

Range(s) == { s[i] : i \in 1..Len(s) }

\* all orders in which a directory listing may return the names
Orders(S) ==
    { s \in [1..Cardinality(S) -> S] :
         \A i, j \in 1..Cardinality(S) : s[i] = s[j] => i = j }

\* os.path.join(dirpath, filename)
filepath == <<dirpath, filename>>

\* filepath + '.zip'
ArchivePath(p) == <<p[1], p[2] \o ZipSuffix>>

\* the names a listing of directory d holds
Listing(d) == { p[2] : p \in { q \in DOMAIN fs : q[1] = d } }

\* sys.getsizeof of a bytes object of n bytes
getsizeof(n) == PyBytesOverhead + n

\* the archive zipobj.write leaves for a file of content c at path p;
\* valid tells whether its end record has reached the disk yet (the code
\* never closes zipobj, so that is up to the interpreter)
ArchiveOf(p, c, valid) ==
    LET n == DirLen(p[1]) + Len(p[2])
        sz == IF valid THEN ZipLocalHeader + n + c.csize + ZipDirectory + n
                       ELSE ZipLocalHeader + n + c.csize
    IN [size |-> sz, zip |-> valid,
        clen |-> Min(sz - (sz \div 2), ReadCap) + ZlibFraming, csize |-> sz]

\* ------------------------------------------------------ pure functions
\* `if not thresh: thresh = 0`
NormThresh(t) == IF t = None \/ t[1] = 0 THEN 0 ELSE t[1]

\* a probe that never recognises an archive
iscompressed_never(p) == FALSE

\* iscompressed(filepath)
iscompressed(p) == fs[p].zip

\* filename[0] == '.'
IsHidden(name) == name[1] = "."

\* the comparison with the boundary on the wrong side
BelowThresh_inclusive(sz, t) == sz <= t

\* filesize < thresh
BelowThresh(sz, t) == sz < t

\* compression_ratio(filepath), as the fraction <<numerator, denominator>>
compression_ratio(p) ==
    LET st_size == fs[p].size
        datalen == Min(st_size - (st_size \div 2), ReadCap)
    IN IF getsizeof(datalen) = 0
       THEN <<1, 1>>
       ELSE <<getsizeof(fs[p].clen), getsizeof(datalen)>>

\* compression_ratio(filepath) < 0.95
GoodRatio(r) == r[1] * BoundDen < BoundNum * r[2]

\* the branch of the if / elif chain of compressfiles a file takes
Branch(p, t) ==
    IF IsHidden(p[2]) \/ iscompressed(p) THEN "hidden_or_compressed"
    ELSE IF BelowThresh(fs[p].size, t) THEN "below_threshold"
    ELSE IF ~GoodRatio(compression_ratio(p)) THEN "poor_ratio"
    ELSE "compress"

\* the results dict
MakeResults ==
    IF uncompressed_size = 0
    THEN [saved_memory |-> <<0, 1>>, saved_bytes |-> 0,
          compressed_files |-> compressed_files,
          not_compressed_files |-> not_compressed_files]
    ELSE [saved_memory |-> <<(uncompressed_size - compressed_size) * 100,
                             uncompressed_size>>,
          saved_bytes |-> uncompressed_size - compressed_size,
          compressed_files |-> compressed_files,
          not_compressed_files |-> not_compressed_files]

NoResults == [saved_memory |-> <<0, 0>>, saved_bytes |-> 0,
              compressed_files |-> <<>>, not_compressed_files |-> <<>>]

\* ---------------------------------------------------------------- Init
InitFs ==
    UNION { [S -> Contents] :
              S \in { T \in SUBSET InitPaths : Cardinality(T) <= MaxFiles } }

\* the walk os.walk(dir_name) performs: nothing for a missing root
WalkOf(exists) == IF exists THEN Dirs ELSE <<>>

Init ==
    /\ root_exists \in BOOLEAN
    /\ threshold \in Thresholds
    /\ fs \in InitFs
    /\ root_exists = FALSE => fs = << >>
    /\ fs0 = fs
    /\ run = 1
    /\ pc = "loop"
    /\ thresh = NormThresh(threshold)
    /\ uncompressed_size = 0
    /\ compressed_size = 0
    /\ compressed_files = <<>>
    /\ not_compressed_files = <<>>
    /\ walk = WalkOf(root_exists)
    /\ dirpath = "root"
    /\ filelist = <<>>
    /\ filename = NameA
    /\ filesize = 0
    /\ results = NoResults
    /\ notified = FALSE
    /\ trace = <<>>
    /\ created = {}

\* ------------------------------------------------------------- actions
Running == {"loop", "create", "write", "remove", "returned"}

\* os.walk yields the next directory with the listing it has right now
WalkNext ==
    /\ pc = "loop"
    /\ filelist = <<>>
    /\ walk # <<>>
    /\ dirpath' = Head(walk)
    /\ walk' = Tail(walk)
    /\ filelist' \in Orders(Listing(Head(walk)))
    /\ UNCHANGED <<root_exists, threshold, fs, fs0, run, pc, thresh,
                   uncompressed_size, compressed_size, compressed_files,
                   not_compressed_files, filename, filesize, results,
                   notified, trace, created>>

\* os.stat(filepath) raises: the exception leaves compressfiles and main
StatFails ==
    /\ pc = "loop"
    /\ filelist # <<>>
    /\ filename' = Head(filelist)
    /\ filelist' = Tail(filelist)
    /\ pc' = "crashed"
    /\ UNCHANGED <<root_exists, threshold, fs, fs0, run, thresh,
                   uncompressed_size, compressed_size, compressed_files,
                   not_compressed_files, walk, dirpath, filesize, results,
                   notified, trace, created>>

Entry(p, branch, listed, result) ==
    [path |-> p, seen |-> fs[p], ratio |-> compression_ratio(p),
     branch |-> branch, listed |-> listed, result |-> result,
     fresh |-> p \in created]

\* one pass of the loop body up to the decision (lines 93-115)
VisitFile ==
    /\ pc = "loop"
    /\ filelist # <<>>
    /\ LET name == Head(filelist)
           p == <<dirpath, name>>
           sz == fs[p].size
           b == Branch(p, thresh)
       IN /\ p \in DOMAIN fs
          /\ filename' = name
          /\ filelist' = Tail(filelist)
          /\ filesize' = sz
          /\ uncompressed_size' = uncompressed_size + sz
          /\ \/ /\ b # "compress"
                /\ not_compressed_files' = Append(not_compressed_files, name)
                /\ compressed_size' = compressed_size + sz
                /\ trace' = Append(trace, Entry(p, b, "skipped", "skipped"))
                /\ pc' = "loop"
             \/ /\ b = "compress"
                /\ trace' = Append(trace, Entry(p, b, "none", "pending"))
                /\ pc' = "create"
                /\ UNCHANGED <<not_compressed_files, compressed_size>>
    /\ UNCHANGED <<root_exists, threshold, fs, fs0, run, thresh,
                   compressed_files, walk, dirpath, results, notified,
                   created>>

\* open(filepath, 'rb') or os.stat inside compression_ratio raises
RatioFails ==
    /\ pc = "loop"
    /\ filelist # <<>>
    /\ LET name == Head(filelist)
           p == <<dirpath, name>>
       IN /\ p \in DOMAIN fs
          /\ ~(IsHidden(name) \/ iscompressed(p))
          /\ ~BelowThresh(fs[p].size, thresh)
          /\ filename' = name
          /\ filelist' = Tail(filelist)
          /\ filesize' = fs[p].size
          /\ uncompressed_size' = uncompressed_size + fs[p].size
          /\ trace' = Append(trace, Entry(p, "ratio_error", "none", "failed"))
    /\ pc' = "crashed"
    /\ UNCHANGED <<root_exists, threshold, fs, fs0, run, thresh,
                   compressed_size, compressed_files, not_compressed_files,
                   walk, dirpath, results, notified, created>>

\* functional update that may extend the domain
Put(f, k, v) == [x \in DOMAIN f \cup {k} |-> IF x = k THEN v ELSE f[x]]

Drop(f, k) == [x \in DOMAIN f \ {k} |-> f[x]]

SetLast(field, v) == [trace EXCEPT ![Len(trace)][field] = v]

\* zipfile.ZipFile(filepath+'.zip', 'w') (line 116)
CreateArchive ==
    /\ pc = "create"
    /\ fs' = Put(fs, ArchivePath(filepath), EmptyFile)
    /\ created' = created \cup {ArchivePath(filepath)}
    /\ pc' = "write"
    /\ UNCHANGED <<root_exists, threshold, fs0, run, thresh,
                   uncompressed_size, compressed_size, compressed_files,
                   not_compressed_files, walk, dirpath, filelist, filename,
                   filesize, results, notified, trace>>

\* the same call raises (outside the try): the run ends with the exception
CreateFails ==
    /\ pc = "create"
    /\ pc' = "crashed"
    /\ trace' = SetLast("result", "failed")
    /\ UNCHANGED <<root_exists, threshold, fs, fs0, run, thresh,
                   uncompressed_size, compressed_size, compressed_files,
                   not_compressed_files, walk, dirpath, filelist, filename,
                   filesize, results, notified, created>>

\* lines 118-121 without an exception
WriteArchive ==
    /\ pc = "write"
    /\ \E valid \in BOOLEAN :
          fs' = Put(fs, ArchivePath(filepath),
                    ArchiveOf(filepath, fs[filepath], valid))
    /\ compressed_size' = compressed_size + fs[filepath].csize
    /\ compressed_files' = Append(compressed_files, filename)
    /\ trace' = SetLast("listed", "compressed")
    /\ pc' = "remove"
    /\ UNCHANGED <<root_exists, threshold, fs0, run, thresh,
                   uncompressed_size, not_compressed_files, walk, dirpath,
                   filelist, filename, filesize, results, notified, created>>

\* zipobj.write raises OSError: caught at line 123, the loop goes on
WriteFails ==
    /\ pc = "write"
    /\ trace' = SetLast("result", "failed")
    /\ pc' = "loop"
    /\ UNCHANGED <<root_exists, threshold, fs, fs0, run, thresh,
                   uncompressed_size, compressed_size, compressed_files,
                   not_compressed_files, walk, dirpath, filelist, filename,
                   filesize, results, notified, created>>

\* os.remove(filepath) (line 122)
RemoveOriginal ==
    /\ pc = "remove"
    /\ fs' = Drop(fs, filepath)
    /\ trace' = SetLast("result", "compressed")
    /\ pc' = "loop"
    /\ UNCHANGED <<root_exists, threshold, fs0, run, thresh,
                   uncompressed_size, compressed_size, compressed_files,
                   not_compressed_files, walk, dirpath, filelist, filename,
                   filesize, results, notified, created>>

\* os.remove raises OSError: caught at line 123, the loop goes on
RemoveFails ==
    /\ pc = "remove"
    /\ trace' = SetLast("result", "failed")
    /\ pc' = "loop"
    /\ UNCHANGED <<root_exists, threshold, fs, fs0, run, thresh,
                   uncompressed_size, compressed_size, compressed_files,
                   not_compressed_files, walk, dirpath, filelist, filename,
                   filesize, results, notified, created>>

\* the walk is exhausted: lines 127-138
Finalize ==
    /\ pc = "loop"
    /\ filelist = <<>>
    /\ walk = <<>>
    /\ results' = MakeResults
    /\ pc' = "returned"
    /\ UNCHANGED <<root_exists, threshold, fs, fs0, run, thresh,
                   uncompressed_size, compressed_size, compressed_files,
                   not_compressed_files, walk, dirpath, filelist, filename,
                   filesize, notified, trace, created>>

\* main: mailresults(result, to_addr=target_email)
Notify ==
    /\ pc = "returned"
    /\ notified' = TRUE
    /\ pc' = "done"
    /\ UNCHANGED <<root_exists, threshold, fs, fs0, run, thresh,
                   uncompressed_size, compressed_size, compressed_files,
                   not_compressed_files, walk, dirpath, filelist, filename,
                   filesize, results, trace, created>>

\* end_program: SIGTERM or SIGTSTP while the daemon runs main; sys.exit(0)
end_program ==
    /\ pc \in Running
    /\ pc' = IF pc = "returned" THEN "exited_main" ELSE "exited"
    /\ UNCHANGED <<root_exists, threshold, fs, fs0, run, thresh,
                   uncompressed_size, compressed_size, compressed_files,
                   not_compressed_files, walk, dirpath, filelist, filename,
                   filesize, results, notified, trace, created>>

\* the program is started again on the same directory and threshold
Rerun ==
    /\ pc = "done"
    /\ run < MaxRuns
    /\ run' = run + 1
    /\ fs0' = fs
    /\ pc' = "loop"
    /\ thresh' = NormThresh(threshold)
    /\ uncompressed_size' = 0
    /\ compressed_size' = 0
    /\ compressed_files' = <<>>
    /\ not_compressed_files' = <<>>
    /\ walk' = WalkOf(root_exists)
    /\ filelist' = <<>>
    /\ results' = NoResults
    /\ notified' = FALSE
    /\ trace' = <<>>
    /\ created' = {}
    /\ UNCHANGED <<root_exists, threshold, fs, dirpath, filename, filesize>>

Next ==
    \/ WalkNext
    \/ StatFails
    \/ VisitFile
    \/ RatioFails
    \/ CreateArchive
    \/ CreateFails
    \/ WriteArchive
    \/ WriteFails
    \/ RemoveOriginal
    \/ RemoveFails
    \/ Finalize
    \/ Notify
    \/ end_program
    \/ Rerun

Spec == Init /\ [][Next]_vars

TypeOK ==
    /\ pc \in Running \cup {"done", "crashed", "exited", "exited_main"}
    /\ run \in 1..MaxRuns
    /\ Len(trace) <= Cardinality(DOMAIN fs0)

\* ------------------------------------------------------ claim vocabulary
\* compressfiles has returned its summary
Returned == pc \in {"returned", "done"}

InSeq(x, s) == \E i \in 1..Len(s) : s[i] = x

Entries == Range(trace)

\* what a visited file should leave in the remaining-bytes counter
Remaining(e) == IF e.result = "compressed" THEN e.seen.csize ELSE e.seen.size

RECURSIVE SumSeen(_)
SumSeen(s) == IF s = <<>> THEN 0 ELSE Head(s).seen.size + SumSeen(Tail(s))

RECURSIVE SumRemaining(_)
SumRemaining(s) ==
    IF s = <<>> THEN 0 ELSE Remaining(Head(s)) + SumRemaining(Tail(s))

\* C1: when compressfiles returns, compressed_size is the compress_size of
\* every compressed file plus the original size of every other visited
\* file (skipped or failed), and uncompressed_size is the total seen.
C1_Conservation ==
    Returned =>
        /\ uncompressed_size = SumSeen(trace)
        /\ compressed_size = SumRemaining(trace)

\* C2: when compressfiles returns, the name of every visited file is in
\* exactly one of compressed_files and not_compressed_files, and a file
\* whose compression failed is in not_compressed_files.
C2_ExactlyOneList ==
    Returned =>
        \A e \in Entries :
            /\ InSeq(e.path[2], compressed_files)
                  # InSeq(e.path[2], not_compressed_files)
            /\ e.result = "failed" => InSeq(e.path[2], not_compressed_files)

\* C3: every file reported in compressed_files is gone from its original
\* path and its archive <path>.zip exists.
C3_CompressedGone ==
    Returned =>
        \A e \in Entries :
            e.listed = "compressed" =>
                /\ e.path \notin DOMAIN fs
                /\ ArchivePath(e.path) \in DOMAIN fs

\* C4: no failure of a file-level operation ends the run with an
\* exception.
C4_NeverAborts == pc # "crashed"

\* C5: every visited file whose outcome is not Compressed still exists at
\* its path with the content it had when the run began.
C5_NotCompressedUntouched ==
    Returned =>
        \A e \in Entries :
            e.result # "compressed" =>
                /\ e.path \in DOMAIN fs
                /\ fs[e.path] = fs0[e.path]

\* the ordered chain of the policy, on the inputs a visit observed
ChainVerdict(name, isarchive, size, t, ratio) ==
    IF name[1] = "." THEN "hidden_or_compressed"
    ELSE IF isarchive THEN "hidden_or_compressed"
    ELSE IF size < (IF t = None THEN 0 ELSE t[1]) THEN "below_threshold"
    ELSE IF ratio[1] * 100 >= 95 * ratio[2] THEN "poor_ratio"
    ELSE "compress"

\* C6: the branch compressfiles takes for a file is the first match of
\* hidden, valid archive, size < threshold (None as 0), ratio >= 0.95,
\* else compress; a skipped file goes to not_compressed_files and no
\* other does.
C6_VerdictChain ==
    \A e \in Entries :
        e.branch # "ratio_error" =>
            /\ e.branch = ChainVerdict(e.path[2], e.seen.zip, e.seen.size,
                                       threshold, e.ratio)
            /\ (e.branch = "compress") = (e.listed # "skipped")
            /\ e.listed = "skipped" => InSeq(e.path[2], not_compressed_files)

\* C6 witness: with a threshold set, a file of exactly the threshold size
\* went on to compression and a file one byte smaller was skipped for size.
C6_Witness ==
    /\ threshold # None
    /\ \E e \in Entries :
          e.seen.size = threshold[1] /\ e.branch = "compress"
    /\ \E e \in Entries :
          e.seen.size = threshold[1] - 1 /\ e.branch = "below_threshold"

\* C7: a run ended by the termination signal while compressfiles was
\* processing files (at least one file dispatched) has called the notifier
\* with the summary of the files processed so far.
C7_SignalThenNotify == (pc = "exited" /\ trace # <<>>) => notified

\* C8: a run that starts on a tree in which every file is a valid zip
\* archive compresses nothing: compressed_files is empty, every file is in
\* not_compressed_files, the tree is unchanged and saved_bytes is 0.
C8_Idempotence ==
    (Returned /\ \A p \in DOMAIN fs0 : fs0[p].zip) =>
        /\ compressed_files = <<>>
        /\ Len(not_compressed_files) = Cardinality(DOMAIN fs0)
        /\ \A p \in DOMAIN fs0 : InSeq(p[2], not_compressed_files)
        /\ fs = fs0
        /\ results.saved_bytes = 0

\* C8 witness: a second run has returned over a tree made only of valid
\* archives, one of them written by the first run.
C8_Witness ==
    /\ run = 2
    /\ Returned
    /\ \A p \in DOMAIN fs0 : fs0[p].zip
    /\ \E p \in DOMAIN fs0 : p \notin InitPaths
    /\ Len(trace) = Cardinality(DOMAIN fs0)

\* C9: a run on a root path that does not exist returns no summary.
C9_MissingRootIsError == ~root_exists => ~Returned

\* C10: no path is dispatched twice, and no archive the run has created is
\* visited by the same run.
C10_DispatchedOnce ==
    /\ \A i, j \in 1..Len(trace) : trace[i].path = trace[j].path => i = j
    /\ \A e \in Entries : ~e.fresh
====
